---- MODULE Spec2Model ----
(***************************************************************************)
(* Model of mapping/filter_remapped_reads.py (WASP).                       *)
(*                                                                         *)
(* main() runs filter_reads over the remapped stream, which yields the     *)
(* sets keep_reads and bad_reads, and then write_reads over the original   *)
(* stream, which copies to keep_bam the reads whose name is kept and not   *)
(* bad.  Read names are modelled as sequences of one-character strings so  *)
(* that split(".") and ".".join() are computed, not assumed.               *)
(***************************************************************************)
EXTENDS Integers, Sequences, FiniteSets, TLC

(***************************************************************************)
(* Bounds of the model.                                                    *)
(***************************************************************************)
\* longest remapped stream explored
MaxRemap == 3
\* longest original stream explored
MaxOrig == 2
\* longest remapped stream explored when the loop variable is recorded
MaxTrace == 1
\* longest remapped stream tried in two orders
MaxOrder == 3

(***************************************************************************)
(* Strings.                                                                *)
(***************************************************************************)
Digits == <<"0", "1", "2", "3", "4", "5", "6", "7", "8", "9">>

IsDigit(c) == \E i \in 1..Len(Digits) : Digits[i] = c

DigitVal(c) == (CHOOSE i \in 1..Len(Digits) : Digits[i] = c) - 1

\* c in s
Contains(s, c) == \E i \in 1..Len(s) : s[i] = c

\* s.split(sep): one field per separator, empty fields kept
RECURSIVE Split(_, _)
Split(s, sep) ==
    IF \A i \in 1..Len(s) : s[i] # sep
    THEN <<s>>
    ELSE LET k == CHOOSE i \in 1..Len(s) :
                     /\ s[i] = sep
                     /\ \A j \in 1..(i - 1) : s[j] # sep
         IN  <<SubSeq(s, 1, k - 1)>> \o Split(SubSeq(s, k + 1, Len(s)), sep)

\* sep.join(words)
RECURSIVE Join(_, _)
Join(words, sep) ==
    IF Len(words) = 0 THEN <<>>
    ELSE IF Len(words) = 1 THEN words[1]
    ELSE words[1] \o <<sep>> \o Join(Tail(words), sep)

AllDigits(s) == Len(s) > 0 /\ \A i \in 1..Len(s) : IsDigit(s[i])

\* int(s) succeeds: an optional sign and at least one digit
IsInt(s) ==
    \/ AllDigits(s)
    \/ Len(s) > 1 /\ s[1] = "-" /\ AllDigits(Tail(s))

RECURSIVE DigitsVal(_)
DigitsVal(s) ==
    IF Len(s) = 0 THEN 0
    ELSE 10 * DigitsVal(SubSeq(s, 1, Len(s) - 1)) + DigitVal(s[Len(s)])

\* int(s), for a string on which int() succeeds
ParseInt(s) == IF s[1] = "-" THEN 0 - DigitsVal(Tail(s)) ELSE DigitsVal(s)

(***************************************************************************)
(* Read names of the remapped stream (find_intersecting_snps.py writes     *)
(* <orig_name>.<coordinate>.<read_number>.<total_read_number>).            *)
(***************************************************************************)
\* "r1.101.1.1": single end, expected at 101, the only version of r1
qR1 == <<"r", "1", ".", "1", "0", "1", ".", "1", ".", "1">>
\* "b.1.1.2" and "b.1.2.2": single end, expected at 1, two versions of b
qB1 == <<"b", ".", "1", ".", "1", ".", "2">>
qB2 == <<"b", ".", "1", ".", "2", ".", "2">>
\* "b.1.1.1": a record of b that declares one version only
qB11 == <<"b", ".", "1", ".", "1", ".", "1">>
\* "p.1-101.1.1": paired end, ends expected at 1 and 101
qP == <<"p", ".", "1", "-", "1", "0", "1", ".", "1", ".", "1">>
\* "p.101-1.1.1": the same pair with the coordinates in the other order
qPrev == <<"p", ".", "1", "0", "1", "-", "1", ".", "1", ".", "1">>
\* "b.1.1": three fields only
qShort == <<"b", ".", "1", ".", "1">>
\* "b.1.x.1": read number is no integer
qNaN == <<"b", ".", "1", ".", "x", ".", "1">>
\* "b.1.1.x": total read number is no integer
qNaT == <<"b", ".", "1", ".", "1", ".", "x">>
\* "read.with.dots.100.1.2": the original name holds the separator
qDots == <<"r", "e", "a", "d", ".", "w", "i", "t", "h", ".", "d", "o", "t", "s",
           ".", "1", "0", "0", ".", "1", ".", "2">>

QNames == {qR1, qB1, qB2, qB11, qP, qPrev, qShort, qNaN, qNaT, qDots}

\* 0-based start positions of a read and of its mate
Positions == {0, 100}

\* the fields of a pysam read that filter_reads consults
Records ==
    [qname : QNames, is_secondary : BOOLEAN, is_paired : BOOLEAN,
     is_proper_pair : BOOLEAN, is_read1 : BOOLEAN, is_read2 : BOOLEAN,
     pos : Positions, next_reference_start : Positions]

\* read names of the original stream: plain names, and one encoded name
nR1 == <<"r", "1">>
nB == <<"b">>
nP == <<"p">>
nDots == <<"r", "e", "a", "d", ".", "w", "i", "t", "h", ".", "d", "o", "t", "s">>
\* the original names the remapped stream can speak of
Names == {nR1, nB, nP, nDots}

OrigQNames == {nR1, nB, qR1}

\* the fields of a pysam read that write_reads consults
OrigRecords == [qname : OrigQNames, is_secondary : BOOLEAN]

(***************************************************************************)
(* filter_reads: the judgement of one read.                                *)
(***************************************************************************)
Outcome(kind, name, total) == [kind |-> kind, name |-> name, total |-> total]

\* faulty variant of Raise: the read is passed over as a secondary one is
RaiseNothing == Outcome("secondary", <<>>, 0)

\* a ValueError leaves filter_reads
Raise == Outcome("error", <<>>, 0)

\* faulty variant of ParseName: the original name is taken to be the first
\* field alone
ParseNameFirstField(qname) ==
    LET words == Split(qname, ".")
        n == Len(words)
        enough == n >= 4
        coord_str == IF enough THEN words[n - 2] ELSE <<>>
        num_str == IF enough THEN words[n - 1] ELSE <<>>
        total_str == IF enough THEN words[n] ELSE <<>>
        cs == Split(coord_str, "-")
    IN  [enough |-> enough,
         orig_name |-> IF enough THEN words[1] ELSE <<>>,
         coord_str |-> coord_str,
         num_str |-> num_str,
         total_str |-> total_str,
         counts_ok |-> IsInt(num_str) /\ IsInt(total_str),
         num |-> IF IsInt(num_str) THEN ParseInt(num_str) ELSE 0,
         total |-> IF IsInt(total_str) THEN ParseInt(total_str) ELSE 0,
         paired |-> Contains(coord_str, "-"),
         two |-> Len(cs) = 2,
         coords_ok |-> \A i \in 1..Len(cs) : IsInt(cs[i]),
         pos1 |-> IF IsInt(cs[1]) THEN ParseInt(cs[1]) ELSE 0,
         pos2 |-> IF Len(cs) = 2 /\ IsInt(cs[2]) THEN ParseInt(cs[2]) ELSE 0]

\* what filter_reads reads off a read name: the fields of the name and the
\* integers in them, with the places where the parsing raises ValueError
ParseName(qname) ==
    LET words == Split(qname, ".")
        n == Len(words)
        enough == n >= 4
        orig_name == IF enough THEN Join(SubSeq(words, 1, n - 3), ".") ELSE <<>>
        coord_str == IF enough THEN words[n - 2] ELSE <<>>
        num_str == IF enough THEN words[n - 1] ELSE <<>>
        total_str == IF enough THEN words[n] ELSE <<>>
        cs == Split(coord_str, "-")
    IN  [enough |-> enough,
         orig_name |-> orig_name,
         coord_str |-> coord_str,
         num_str |-> num_str,
         total_str |-> total_str,
         counts_ok |-> IsInt(num_str) /\ IsInt(total_str),
         num |-> IF IsInt(num_str) THEN ParseInt(num_str) ELSE 0,
         total |-> IF IsInt(total_str) THEN ParseInt(total_str) ELSE 0,
         paired |-> Contains(coord_str, "-"),
         two |-> Len(cs) = 2,
         coords_ok |-> \A i \in 1..Len(cs) : IsInt(cs[i]),
         pos1 |-> IF IsInt(cs[1]) THEN ParseInt(cs[1]) ELSE 0,
         pos2 |-> IF Len(cs) = 2 /\ IsInt(cs[2]) THEN ParseInt(cs[2]) ELSE 0]

\* ParseName, tabulated over the read names of the model
ParsedName == [q \in QNames |-> ParseName(q)]

\* left_pos and right_pos of the paired branch
LeftPos(pos1, pos2) == IF pos1 < pos2 THEN pos1 ELSE pos2
RightPos(pos1, pos2) == IF pos1 < pos2 THEN pos2 ELSE pos1

\* faulty variant of IsLeftEnd: at equal starts both ends count as left
IsLeftEndNoTie(read) == read.pos <= read.next_reference_start

\* the read is the left end of its pair
IsLeftEnd(read) ==
    \/ read.pos < read.next_reference_start
    \/ /\ read.pos = read.next_reference_start
       /\ read.is_read1
       /\ ~read.is_read2

\* both ends mapped to the expected location
PairMapsCorrectly(read, pos1, pos2) ==
    pos1 = read.pos + 1 /\ pos2 = read.next_reference_start + 1

\* single end read mapped to the expected location
SingleMapsCorrectly(read, pos) == pos = read.pos + 1

\* faulty variant of PairedJudgement: the right end is skipped before the
\* pairing flags are looked at
PairedJudgementEndFirst(read, f) ==
    IF ~f.two THEN Raise
    ELSE IF ~f.coords_ok THEN Raise
    ELSE IF ~IsLeftEnd(read) THEN Outcome("right", f.orig_name, f.total)
    ELSE IF ~read.is_paired THEN Outcome("bad", f.orig_name, f.total)
    ELSE IF ~read.is_proper_pair THEN Outcome("bad", f.orig_name, f.total)
    ELSE IF PairMapsCorrectly(read, f.pos1, f.pos2)
         THEN Outcome("correct", f.orig_name, f.total)
         ELSE Outcome("incorrect", f.orig_name, f.total)

\* the branch of a coordinate that holds a '-'
PairedJudgement(read, f) ==
    IF ~f.two THEN Raise
    ELSE IF ~read.is_paired THEN Outcome("bad", f.orig_name, f.total)
    ELSE IF ~read.is_proper_pair THEN Outcome("bad", f.orig_name, f.total)
    ELSE IF ~f.coords_ok THEN Raise
    ELSE IF IsLeftEnd(read)
         THEN IF PairMapsCorrectly(read, f.pos1, f.pos2)
              THEN Outcome("correct", f.orig_name, f.total)
              ELSE Outcome("incorrect", f.orig_name, f.total)
         ELSE Outcome("right", f.orig_name, f.total)

\* the branch of a coordinate without '-'
SingleJudgement(read, f) ==
    IF ~f.coords_ok THEN Raise
    ELSE IF SingleMapsCorrectly(read, f.pos1)
         THEN Outcome("correct", f.orig_name, f.total)
         ELSE Outcome("incorrect", f.orig_name, f.total)

\* faulty variant of Judgement: secondary reads are judged like the others
JudgementOfAll(read) ==
    LET f == ParsedName[read.qname]
    IN  IF ~f.enough THEN Raise
        ELSE IF ~f.counts_ok THEN Raise
        ELSE IF f.paired THEN PairedJudgement(read, f)
        ELSE SingleJudgement(read, f)

\* what one pass of the loop body decides about read:
\*   "secondary" skipped, "error" ValueError, "bad" not paired or not a
\*   proper pair, "right" right end skipped, "correct", "incorrect"
Judgement(read) ==
    IF read.is_secondary THEN Outcome("secondary", <<>>, 0)
    ELSE LET f == ParsedName[read.qname]
         IN  IF ~f.enough THEN Raise
             ELSE IF ~f.counts_ok THEN Raise
             ELSE IF f.paired THEN PairedJudgement(read, f)
             ELSE SingleJudgement(read, f)

(***************************************************************************)
(* filter_reads: the bookkeeping of one read.                              *)
(***************************************************************************)
NoCounts == [n \in {} |-> 0]

\* faulty variant of Counted: the count is set to 1, never incremented
CountedAlwaysOne(counts, name) ==
    [n \in DOMAIN counts \cup {name} |-> IF n # name THEN counts[n] ELSE 1]

\* read_counts after the read is counted
Counted(counts, name) ==
    [n \in DOMAIN counts \cup {name} |->
        IF n # name THEN counts[n]
        ELSE IF name \in DOMAIN counts THEN counts[name] + 1 ELSE 1]

\* faulty variant of ReachedTotal: one correct version too many is awaited
ReachedTotalLate(count, total) == count = total + 1

\* faulty variant of ReachedTotal: the first correct version is enough
ReachedTotalEarly(count, total) == count >= 1

\* all alternative versions of the read were seen
ReachedTotal(count, total) == count = total

\* faulty variant of Removed: the count is left in read_counts
RemovedNothing(counts, name) == counts

\* del read_counts[name]
Removed(counts, name) == [n \in DOMAIN counts \ {name} |-> counts[n]]

\* faulty variant of AddsToBad: the right end of a pair is not skipped
AddsToBadRightEnd(kind) == kind \in {"bad", "incorrect", "right"}

\* the judgements that put the name into bad_reads
AddsToBad(kind) == kind \in {"bad", "incorrect"}

\* faulty variant of MarkedBad: the set is replaced, not extended
MarkedBadOnly(bad, name) == {name}

\* bad_reads after a read that does not map correctly
MarkedBad(bad, name) == bad \cup {name}

\* keep_reads after all versions of a read mapped correctly
MarkedKeep(keep, name) == keep \cup {name}

(***************************************************************************)
(* write_reads: the decision on one read of the original stream.           *)
(***************************************************************************)
\* variant of LookupName: the name is decoded as filter_reads decodes it
LookupNameDecoded(read) ==
    LET f == ParseName(read.qname)
    IN  IF f.enough THEN f.orig_name ELSE read.qname

\* the name that write_reads looks up
LookupName(read) == read.qname

\* faulty variant of Destination: keep_reads is consulted first
DestinationKeepFirst(name, keep, bad) ==
    IF name \in keep THEN "keep"
    ELSE IF name \in bad THEN "bad"
    ELSE "discard"

\* the branch of write_reads taken for a name
Destination(name, keep, bad) ==
    IF name \in bad THEN "bad"
    ELSE IF name \in keep THEN "keep"
    ELSE "discard"

\* faulty variant of Written: the read is put in front of the file
WrittenInFront(sink, read) == <<read>> \o sink

\* keep_bam.write(read)
Written(sink, read) == Append(sink, read)

\* faulty variant of Tally: discarded reads are not counted
TallyNoDiscard(count, d, branch) ==
    count + (IF d = branch /\ branch # "discard" THEN 1 ELSE 0)

\* keep_count, bad_count or discard_count after a read that took branch d
Tally(count, d, branch) == count + (IF d = branch THEN 1 ELSE 0)

(***************************************************************************)
(* State.                                                                  *)
(***************************************************************************)
VARIABLES
    pc,             \* where main is: "filter_reads", "write_reads", "done", "error"
    traced,         \* whether the loop variable of filter_reads is recorded
    read,           \* the loop variable of filter_reads (NoRead when not recorded)
    nread,          \* number of reads taken from remap_bam
    read_counts,    \* filter_reads: read_counts
    keep_reads,     \* filter_reads: keep_reads
    bad_reads,      \* filter_reads: bad_reads
    obs,            \* history: per original name, what remap_bam contained
    consumed,       \* history: the reads taken from to_remap_bam, in order
    keep_bam,       \* the reads written to keep_bam, in order
    keep_count,     \* write_reads: keep_count
    bad_count,      \* write_reads: bad_count
    discard_count,  \* write_reads: discard_count
    trial           \* two orders of one remap_bam and what filter_reads made of each

vars == <<pc, traced, read, nread, read_counts, keep_reads, bad_reads, obs,
          consumed, keep_bam, keep_count, bad_count, discard_count, trial>>

NoRead == [qname |-> <<>>]

NoObs == [correct |-> 0, wrong |-> 0, totals |-> {}]

\* the history after a read judged j
Observed(o, j) ==
    IF j.kind \in {"secondary", "error"} THEN o
    ELSE [o EXCEPT ![j.name] =
            [correct |-> @.correct + (IF j.kind = "correct" THEN 1 ELSE 0),
             wrong |-> @.wrong + (IF j.kind \in {"bad", "incorrect"} THEN 1 ELSE 0),
             totals |-> @.totals \cup {j.total}]]

\* the locals of filter_reads between two passes of its loop
Bookkeeping(p, counts, keep, bad) ==
    [pc |-> p, read_counts |-> counts, keep_reads |-> keep, bad_reads |-> bad]

\* filter_reads has not been run on either order
NoTrial == [remap_a |-> <<>>, remap_b |-> <<>>, ran |-> FALSE,
            result_a |-> Bookkeeping("filter_reads", NoCounts, {}, {}),
            result_b |-> Bookkeeping("filter_reads", NoCounts, {}, {})]

InitMain ==
    /\ pc = "filter_reads"
    /\ read = NoRead
    /\ nread = 0
    /\ read_counts = NoCounts
    /\ keep_reads = {}
    /\ bad_reads = {}
    /\ obs = [n \in Names |-> NoObs]
    /\ consumed = <<>>
    /\ keep_bam = <<>>
    /\ keep_count = 0
    /\ bad_count = 0
    /\ discard_count = 0

InitCommon == InitMain /\ trial = NoTrial

Init == traced = FALSE /\ InitCommon

InitTraced == traced = TRUE /\ InitCommon

(***************************************************************************)
(* Actions.                                                                *)
(***************************************************************************)
\* the body of the loop of filter_reads on read r, from the bookkeeping st
Pass(st, r) ==
    LET j == Judgement(r)
        counted == Counted(st.read_counts, j.name)
    IN  IF j.kind = "error"
        THEN [st EXCEPT !.pc = "error"]
        ELSE IF j.kind = "correct"
        THEN IF ReachedTotal(counted[j.name], j.total)
             THEN IF j.name \in st.keep_reads
                  THEN [st EXCEPT !.pc = "error", !.read_counts = counted]
                  ELSE [st EXCEPT !.keep_reads = MarkedKeep(@, j.name),
                                  !.read_counts = Removed(counted, j.name)]
             ELSE [st EXCEPT !.read_counts = counted]
        ELSE IF AddsToBad(j.kind)
        THEN [st EXCEPT !.bad_reads = MarkedBad(@, j.name)]
        ELSE st

\* one pass of the loop of filter_reads, on the next read r of remap_bam
FilterReadsStep(r) ==
    /\ pc = "filter_reads"
    /\ nread < (IF traced THEN MaxTrace ELSE MaxRemap)
    /\ nread' = nread + 1
    /\ read' = (IF traced THEN r ELSE NoRead)
    /\ obs' = Observed(obs, Judgement(r))
    /\ LET after == Pass(Bookkeeping(pc, read_counts, keep_reads, bad_reads), r)
       IN  /\ pc' = after.pc
           /\ read_counts' = after.read_counts
           /\ keep_reads' = after.keep_reads
           /\ bad_reads' = after.bad_reads
    /\ UNCHANGED <<traced, consumed, keep_bam, keep_count, bad_count,
                   discard_count, trial>>

\* remap_bam is exhausted: filter_reads returns keep_reads, bad_reads, and its
\* locals read and read_counts are gone
FilterReadsReturn ==
    /\ pc = "filter_reads"
    /\ pc' = "write_reads"
    /\ read' = NoRead
    /\ read_counts' = NoCounts
    /\ UNCHANGED <<traced, nread, keep_reads, bad_reads, obs, consumed,
                   keep_bam, keep_count, bad_count, discard_count, trial>>

\* faulty variant of WriteReadsMayRun: write_reads runs alongside filter_reads
WriteReadsMayRunEarly == pc \in {"filter_reads", "write_reads"}

\* main calls write_reads once filter_reads has returned
WriteReadsMayRun == pc = "write_reads"

\* one pass of the loop of write_reads, on the next read r of to_remap_bam
WriteReadsStep(r) ==
    /\ WriteReadsMayRun
    /\ Len(consumed) < MaxOrig
    /\ consumed' = Append(consumed, r)
    /\ LET d == Destination(LookupName(r), keep_reads, bad_reads)
       IN  /\ keep_bam' = (IF d = "keep" THEN Written(keep_bam, r) ELSE keep_bam)
           /\ keep_count' = Tally(keep_count, d, "keep")
           /\ bad_count' = Tally(bad_count, d, "bad")
           /\ discard_count' = Tally(discard_count, d, "discard")
    /\ UNCHANGED <<pc, traced, read, nread, read_counts, keep_reads,
                   bad_reads, obs, trial>>

\* to_remap_bam is exhausted: write_reads reports the counts and returns
WriteReadsReturn ==
    /\ pc = "write_reads"
    /\ pc' = "done"
    /\ UNCHANGED <<traced, read, nread, read_counts, keep_reads, bad_reads,
                   obs, consumed, keep_bam, keep_count, bad_count,
                   discard_count, trial>>

Next ==
    \/ \E r \in Records : FilterReadsStep(r)
    \/ FilterReadsReturn
    \/ \E r \in OrigRecords : WriteReadsStep(r)
    \/ WriteReadsReturn

\* runs of main over every remapped stream of at most MaxRemap reads
Spec == Init /\ [][Next]_vars

\* the same runs with the read in hand recorded, streams of at most MaxTrace
SpecTraced == InitTraced /\ [][Next]_vars

(***************************************************************************)
(* filter_reads as a function of its stream, run on two orders of one      *)
(* remap_bam.                                                              *)
(***************************************************************************)
\* the whole of filter_reads on the reads left in stream: the loop stops at
\* the first raise, and returns keep_reads and bad_reads when stream is empty
RECURSIVE FilterReadsFrom(_, _)
FilterReadsFrom(st, stream) ==
    IF st.pc = "error" THEN st
    ELSE IF stream = <<>>
    THEN [st EXCEPT !.pc = "write_reads", !.read_counts = NoCounts]
    ELSE FilterReadsFrom(Pass(st, Head(stream)), Tail(stream))

FilterReads(stream) ==
    FilterReadsFrom(Bookkeeping("filter_reads", NoCounts, {}, {}), stream)

\* the reads a tried remap_bam is made of: primary left ends mapped to either
\* position, named for a single end, for a single end with a clashing total,
\* for a pair, or too short
OrderQNames == {qR1, qB1, qB11, qP, qShort}

OrderRecords ==
    {r \in Records :
        /\ r.qname \in OrderQNames
        /\ ~r.is_secondary
        /\ r.is_paired /\ r.is_proper_pair
        /\ r.is_read1 /\ ~r.is_read2
        /\ r.next_reference_start = 100}

\* the reorderings of streams of each length up to MaxOrder
Reorderings ==
    [n \in 0..MaxOrder |->
        {p \in [1..n -> 1..n] : \A i, k \in 1..n : p[i] = p[k] => i = k}]

Permuted(stream, p) == [i \in 1..Len(stream) |-> stream[p[i]]]

\* every remap_bam of at most MaxOrder reads, next to every reordering of it
InitOrder ==
    /\ traced = FALSE
    /\ InitMain
    /\ \E n \in 0..MaxOrder :
          \E stream \in [1..n -> OrderRecords] :
             \E p \in Reorderings[n] :
                trial = [NoTrial EXCEPT !.remap_a = stream,
                                        !.remap_b = Permuted(stream, p)]

\* main's call of filter_reads, made on each of the two orders
FilterReadsBothOrders ==
    /\ ~trial.ran
    /\ trial' = [trial EXCEPT !.ran = TRUE,
                              !.result_a = FilterReads(trial.remap_a),
                              !.result_b = FilterReads(trial.remap_b)]
    /\ UNCHANGED <<pc, traced, read, nread, read_counts, keep_reads,
                   bad_reads, obs, consumed, keep_bam, keep_count, bad_count,
                   discard_count>>

NextOrder == FilterReadsBothOrders

\* filter_reads on every remap_bam of at most MaxOrder reads, in two orders
SpecOrder == InitOrder /\ [][NextOrder]_vars

(***************************************************************************)
(* Properties.  In what follows a read of remap_bam is "correct" when      *)
(* filter_reads judges it correct, and "incorrect" when filter_reads puts  *)
(* its name into bad_reads (wrong position, not paired, not proper pair).  *)
(***************************************************************************)
\* filter_reads has returned its two sets
Returned == pc \in {"write_reads", "done"}

\* every read of the name seen so far declares the same total, at least 1
SameTotal(n) ==
    /\ Cardinality(obs[n].totals) = 1
    /\ \A t \in obs[n].totals : t >= 1

TotalOf(n) == CHOOSE t \in obs[n].totals : TRUE

\* C1: every read written to keep_bam has a name of which remap_bam held at
\* least as many correct non-secondary reads as one of them declares in
\* total, and no incorrect non-secondary read.
C1_WrittenReadsAreStable ==
    \A i \in 1..Len(keep_bam) :
        LET n == keep_bam[i].qname
        IN  /\ n \in Names
            /\ obs[n].wrong = 0
            /\ \E t \in obs[n].totals : t >= 1 /\ obs[n].correct >= t

\* a read of b is written after both versions of b mapped correctly, and a
\* read of another name is refused as bad
C1_Witness ==
    /\ pc = "done"
    /\ Len(keep_bam) = 1
    /\ keep_bam[1].qname = nB
    /\ obs[nB] = [correct |-> 2, wrong |-> 0, totals |-> {2}]
    /\ bad_count = 1

\* C2 as claimed: after filter_reads returns, keep_reads and bad_reads are
\* disjoint.
C2_Disjoint == Returned => keep_reads \cap bad_reads = {}

\* C2 as amended: after filter_reads returns, bad_reads holds exactly the
\* names with an incorrect read, so that keep_reads and bad_reads share a name
\* only if remap_bam held an incorrect read of it and also as many correct
\* reads as one of its reads declares in total.
C2_SharedOnlyWhenBoth ==
    Returned =>
        \A n \in Names :
            /\ n \in bad_reads <=> obs[n].wrong >= 1
            /\ n \in keep_reads \cap bad_reads =>
                   \E t \in obs[n].totals : t >= 1 /\ obs[n].correct >= t

\* filter_reads has returned with a name in both sets
C2_Witness == Returned /\ keep_reads \cap bad_reads # {}

\* C3 as claimed: after filter_reads returns, a name whose reads declare one
\* total is in keep_reads iff exactly that many correct reads and no
\* incorrect read of it were seen.
C3_KeptIffExactlyTotalAndNoneWrong ==
    Returned =>
        \A n \in Names :
            SameTotal(n) =>
                (n \in keep_reads <=>
                    obs[n].correct = TotalOf(n) /\ obs[n].wrong = 0)

\* C3 as amended: after filter_reads returns, a name whose reads declare one
\* total is in keep_reads iff at least that many correct reads of it were
\* seen, whether or not an incorrect read of it was seen.
C3_KeptIffTotalReached ==
    Returned =>
        \A n \in Names :
            SameTotal(n) => (n \in keep_reads <=> obs[n].correct >= TotalOf(n))

\* filter_reads has returned with b kept, both its versions correct and a
\* third read of it incorrect
C3_Witness ==
    /\ Returned
    /\ nB \in keep_reads
    /\ obs[nB] = [correct |-> 2, wrong |-> 1, totals |-> {2}]

\* C4 as claimed: a name that is in bad_reads is never afterwards added to
\* keep_reads.
C4_BadNeverKept ==
    [][\A n \in Names :
          n \in bad_reads /\ n \notin keep_reads => n \notin keep_reads']_vars

\* C4 as amended: a name that is in bad_reads stays in bad_reads, and it is
\* afterwards added to keep_reads only by a further correct read of it (the
\* one that brings its count to the declared total).
C4_BadStaysBad ==
    [][\A n \in Names :
          n \in bad_reads =>
              /\ n \in bad_reads'
              /\ n \notin keep_reads /\ n \in keep_reads' =>
                     obs'[n].correct = obs[n].correct + 1]_vars

\* b, of two versions, is in bad_reads and in keep_reads during filter_reads:
\* a correct, an incorrect and a second correct read of b were seen
C4_Witness ==
    /\ pc = "filter_reads"
    /\ nB \in bad_reads
    /\ nB \in keep_reads
    /\ obs[nB] = [correct |-> 2, wrong |-> 1, totals |-> {2}]

\* the read in hand is a paired, proper-pair, left-end read with a well-formed
\* two-position coordinate, and it is the first read of remap_bam
LeftEndInHand ==
    /\ nread = 1
    /\ read # NoRead
    /\ ~read.is_secondary
    /\ LET f == ParsedName[read.qname]
       IN  f.enough /\ f.counts_ok /\ f.paired /\ f.two /\ f.coords_ok
    /\ read.is_paired
    /\ read.is_proper_pair
    /\ IsLeftEnd(read)

\* C5 as claimed: a paired, proper-pair, left-end read with coordinate c1-c2
\* is counted as correct iff its start + 1 is min(c1, c2) and its mate's
\* start + 1 is max(c1, c2), in whichever order c1 and c2 are written.
C5_SortedCoordinates ==
    LeftEndInHand =>
        LET f == ParsedName[read.qname]
        IN  obs[f.orig_name].correct = 1 <=>
                /\ read.pos + 1 = LeftPos(f.pos1, f.pos2)
                /\ read.next_reference_start + 1 = RightPos(f.pos1, f.pos2)

\* C6 as claimed: filter_reads does not return when remap_bam holds more
\* correct reads of a name than its reads declare in total.
C6_ExcessIsFatal ==
    Returned =>
        \A n \in Names : SameTotal(n) => obs[n].correct <= TotalOf(n)

\* remap_bam was the one read "r1.101.1.1" at position 100, judged correct,
\* and to_remap_bam was one read
R1Verified ==
    /\ pc = "done"
    /\ nread = 1
    /\ obs[nR1] = [correct |-> 1, wrong |-> 0, totals |-> {1}]
    /\ Len(consumed) = 1

\* C7 as claimed: write_reads decodes the name of a read before looking it
\* up, so that after "r1.101.1.1" is verified the read "r1.101.1.1" of
\* to_remap_bam is written and keep_count is 1.
C7_EncodedNameIsKept ==
    R1Verified /\ consumed[1].qname = qR1 =>
        keep_bam = consumed /\ keep_count = 1

\* C7 as amended: write_reads looks up the name of a read as it stands, so
\* that after "r1.101.1.1" is verified the read "r1" of to_remap_bam is
\* written and keep_count is 1, and the read "r1.101.1.1" of to_remap_bam is
\* not written and is counted as discarded.
C7_PlainNameIsKept ==
    /\ R1Verified /\ consumed[1].qname = nR1 =>
           keep_bam = consumed /\ keep_count = 1
    /\ R1Verified /\ consumed[1].qname = qR1 =>
           keep_bam = <<>> /\ keep_count = 0 /\ discard_count = 1

\* after "r1.101.1.1" is verified, the read "r1" was written
C7_Witness ==
    /\ R1Verified
    /\ consumed[1].qname = nR1
    /\ keep_bam = consumed
    /\ keep_count = 1

InKeepNotBad(r) == r.qname \in keep_reads /\ r.qname \notin bad_reads
InBad(r) == r.qname \in bad_reads
InNeither(r) == r.qname \notin keep_reads /\ r.qname \notin bad_reads

\* C8: keep_bam holds exactly the reads of to_remap_bam whose name is in
\* keep_reads and not in bad_reads; bad_count counts the reads whose name is in
\* bad_reads, in keep_reads or not, and discard_count those in neither set.
C8_BadTakesPriority ==
    Returned =>
        /\ keep_bam = SelectSeq(consumed, InKeepNotBad)
        /\ bad_count = Len(SelectSeq(consumed, InBad))
        /\ discard_count = Len(SelectSeq(consumed, InNeither))

\* a read whose name is in both sets was counted as bad and not written, and
\* a read whose name is in neither set was counted as discarded
C8_Witness ==
    /\ pc = "done"
    /\ Len(consumed) = 2
    /\ consumed[1].qname \in keep_reads \cap bad_reads
    /\ consumed[2].qname \notin keep_reads \cup bad_reads
    /\ keep_bam = <<>>
    /\ bad_count = 1
    /\ discard_count = 1

\* C9: the three counts add up to the number of reads taken from
\* to_remap_bam, secondary ones included, and keep_count is the number of
\* reads written to keep_bam.
C9_CountsAddUp ==
    Returned =>
        /\ keep_count + bad_count + discard_count = Len(consumed)
        /\ keep_count = Len(keep_bam)

\* write_reads is through with a secondary read that it wrote and a read
\* that it discarded
C9_Witness ==
    /\ pc = "done"
    /\ Len(consumed) = 2
    /\ consumed[1].is_secondary
    /\ keep_bam = <<consumed[1]>>
    /\ keep_count = 1
    /\ discard_count = 1

\* s is t with some of its elements left out
RECURSIVE IsSubseq(_, _)
IsSubseq(s, t) ==
    IF s = <<>> THEN TRUE
    ELSE IF t = <<>> THEN FALSE
    ELSE IF Head(s) = Head(t) THEN IsSubseq(Tail(s), Tail(t))
    ELSE IsSubseq(s, Tail(t))

\* C10: the reads written to keep_bam are a subsequence of the reads taken
\* from to_remap_bam: same order, none written twice.
C10_OutputInInputOrder == IsSubseq(keep_bam, consumed)

\* two different reads were written
C10_Witness ==
    /\ Len(keep_bam) = 2
    /\ keep_bam[1] # keep_bam[2]
    /\ keep_bam = consumed

\* a pass of the loop of filter_reads has just taken read' from remap_bam
TookRead == nread' = nread + 1

\* r is a non-secondary end of a proper pair with a well-formed two-position
\* coordinate, flagged either read1 and not read2, or read2
IsPairEnd(r) ==
    /\ r # NoRead
    /\ ~r.is_secondary
    /\ LET f == ParsedName[r.qname]
       IN  f.enough /\ f.counts_ok /\ f.paired /\ f.two /\ f.coords_ok
    /\ r.is_paired
    /\ r.is_proper_pair
    /\ (r.is_read1 /\ ~r.is_read2) \/ r.is_read2

\* the other end of the pair of r: starts exchanged, the other read-in-pair flag
Mate(r) ==
    [r EXCEPT !.pos = r.next_reference_start,
              !.next_reference_start = r.pos,
              !.is_read1 = r.is_read2,
              !.is_read2 = ~r.is_read2]

\* the end that is to decide for the pair: the one with the smaller start, or
\* at equal starts the one flagged read1 and not read2
Decides(r) ==
    \/ r.pos < r.next_reference_start
    \/ r.pos = r.next_reference_start /\ r.is_read1 /\ ~r.is_read2

\* C11: of the two ends of a proper pair exactly one decides, the one with the
\* smaller start or at equal starts the one flagged read1 and not read2: it is
\* counted or marked bad; the other end is skipped, which leaves read_counts,
\* keep_reads and bad_reads as they were and raises nothing.
C11_OneEndDecides ==
    [][TookRead /\ IsPairEnd(read') =>
          LET n == ParsedName[read'.qname].orig_name
          IN  /\ Decides(read') # Decides(Mate(read'))
              /\ (Judgement(read').kind = "right")
                     # (Judgement(Mate(read')).kind = "right")
              /\ Decides(read') =>
                     \/ n \in DOMAIN read_counts'
                     \/ n \in keep_reads'
                     \/ n \in bad_reads'
                     \/ pc' = "error"
              /\ ~Decides(read') =>
                     /\ UNCHANGED <<read_counts, keep_reads, bad_reads, pc>>
                     /\ obs'[n].wrong = obs[n].wrong]_vars

\* the end flagged read2 of a pair whose ends start at the same position was
\* taken first and skipped
C11_Witness ==
    /\ nread = 1
    /\ IsPairEnd(read)
    /\ read.pos = read.next_reference_start
    /\ read.is_read2
    /\ read_counts = NoCounts
    /\ keep_reads = {}
    /\ bad_reads = {}
    /\ pc = "filter_reads"

\* the name has fewer than 4 fields, or one of its last two fields is no integer
MalformedName(qname) ==
    LET words == Split(qname, ".")
        n == Len(words)
    IN  n < 4 \/ ~IsInt(words[n - 1]) \/ ~IsInt(words[n])

\* C12: a non-secondary read whose name has fewer than 4 fields, or whose last
\* two fields are not both integers, ends filter_reads with an error: no sets
\* are returned, write_reads takes no read and keep_bam stays empty.
C12_MalformedNameIsFatal ==
    [][/\ TookRead /\ ~read'.is_secondary /\ MalformedName(read'.qname) =>
              pc' = "error"
       /\ pc' = "error" => keep_bam' = <<>> /\ consumed' = <<>>
       /\ pc = "error" => pc' = "error"
       /\ consumed' # consumed => pc = "write_reads" /\ nread = nread']_vars

\* the read "b.1.1.x" ended filter_reads with an error
C12_Witness ==
    /\ pc = "error"
    /\ nread = 1
    /\ read.qname = qNaT
    /\ ~read.is_secondary
    /\ keep_bam = <<>>
    /\ consumed = <<>>

\* the first read of remap_bam is in hand and was not skipped as secondary
FirstReadInHand == nread = 1 /\ read # NoRead /\ ~read.is_secondary

\* C13: of a name of n >= 4 fields, filter_reads takes the last three fields as
\* coordinate, read number and total, and the first n - 3 fields, rejoined
\* with the separator, as the original name, so that the four parts joined
\* with the separator are the name again; "read.with.dots.100.1.2" yields the
\* original name "read.with.dots".
C13_NameSplitsFromTheRight ==
    FirstReadInHand =>
        LET words == Split(read.qname, ".")
            n == Len(words)
            f == ParsedName[read.qname]
        IN  n >= 4 =>
                /\ <<f.coord_str, f.num_str, f.total_str>>
                       = SubSeq(words, n - 2, n)
                /\ Split(f.orig_name, ".") = SubSeq(words, 1, n - 3)
                /\ Join(<<f.orig_name, f.coord_str, f.num_str, f.total_str>>,
                        ".") = read.qname
                /\ read.qname = qDots =>
                       f.orig_name = nDots /\ bad_reads = {nDots}

\* "read.with.dots.100.1.2" was taken, found at another position than 100,
\* and its original name "read.with.dots" put into bad_reads
C13_Witness ==
    /\ FirstReadInHand
    /\ read.qname = qDots
    /\ bad_reads = {nDots}
    /\ obs[nDots] = [correct |-> 0, wrong |-> 1, totals |-> {2}]

\* C14: nothing is written to keep_bam, and nothing is taken from
\* to_remap_bam, before filter_reads has returned; a run whose filter_reads
\* ends with an error has written no read.
C14_NothingWrittenBeforeReturn ==
    pc \in {"filter_reads", "error"} =>
        /\ keep_bam = <<>>
        /\ consumed = <<>>
        /\ keep_count = 0

\* filter_reads ended with an error after it had put r1 into keep_reads, and
\* keep_bam is empty
C14_Witness ==
    /\ pc = "error"
    /\ nR1 \in keep_reads
    /\ keep_bam = <<>>

\* C15 as claimed: between two reads of filter_reads, a name that has a count
\* in read_counts is neither in keep_reads nor in bad_reads.
C15_CountedNamesHaveNoVerdict ==
    pc = "filter_reads" =>
        \A n \in DOMAIN read_counts :
            n \notin keep_reads /\ n \notin bad_reads

\* C15 as amended: between two reads of filter_reads, the count of a name in
\* read_counts is the number of its correct reads since it was last put into
\* keep_reads: the name is not in keep_reads unless correct reads of it came
\* after it was kept; it is in bad_reads whenever an incorrect read of it was
\* seen, which does not remove its count.
C15_CountedNamesMayBeBad ==
    pc = "filter_reads" =>
        \A n \in DOMAIN read_counts :
            /\ read_counts[n] >= 1
            /\ n \notin keep_reads => obs[n].correct = read_counts[n]
            /\ n \in keep_reads => obs[n].correct > read_counts[n]
            /\ n \in bad_reads <=> obs[n].wrong >= 1

\* one version of b was counted, the next read of b was incorrect: b is in
\* bad_reads and still has its count
C15_Witness ==
    /\ pc = "filter_reads"
    /\ read_counts = [n \in {nB} |-> 1]
    /\ nB \in bad_reads
    /\ nB \notin keep_reads
    /\ obs[nB] = [correct |-> 1, wrong |-> 1, totals |-> {2}]

\* C16: between two reads of filter_reads, the count of a name whose reads
\* all declare the same total, at least 1, is at least 1 and less than that
\* total: a count that reaches the total is removed in the same pass.
C16_CountsBelowTotal ==
    pc = "filter_reads" =>
        \A n \in DOMAIN read_counts :
            SameTotal(n) =>
                1 <= read_counts[n] /\ read_counts[n] < TotalOf(n)

\* both versions of b were counted and the count removed as it reached 2; a
\* third correct read of b has a count of 1 again
C16_Witness ==
    /\ pc = "filter_reads"
    /\ nB \in keep_reads
    /\ read_counts = [n \in {nB} |-> 1]
    /\ obs[nB] = [correct |-> 3, wrong |-> 0, totals |-> {2}]

\* C17: a secondary read is passed over: taking it leaves read_counts,
\* keep_reads and bad_reads as they were and raises nothing, whatever its
\* name, position and pairing flags.
C17_SecondaryIsSkipped ==
    [][TookRead /\ read'.is_secondary =>
          /\ UNCHANGED <<read_counts, keep_reads, bad_reads, pc>>
          /\ obs' = obs]_vars

\* the secondary read "b.1.1", a name of three fields, was taken and nothing
\* happened
C17_Witness ==
    /\ nread = 1
    /\ read # NoRead
    /\ read.is_secondary
    /\ read.qname = qShort
    /\ pc = "filter_reads"
    /\ read_counts = NoCounts
    /\ keep_reads = {}
    /\ bad_reads = {}

\* r is a non-secondary read with a two-position coordinate that is not
\* flagged paired, or not flagged proper pair
IsBrokenPair(r) ==
    /\ ~r.is_secondary
    /\ ~MalformedName(r.qname)
    /\ LET f == ParsedName[r.qname]
       IN  f.paired /\ f.two /\ f.coords_ok
    /\ ~r.is_paired \/ ~r.is_proper_pair

\* C18: a non-secondary read with a two-position coordinate that is not
\* flagged paired, or not flagged proper pair, puts its original name into
\* bad_reads at once, left end or right end, whatever its positions, and
\* leaves read_counts and keep_reads as they were.
C18_BrokenPairIsBad ==
    [][TookRead /\ IsBrokenPair(read') =>
          /\ bad_reads' = bad_reads \cup {ParsedName[read'.qname].orig_name}
          /\ UNCHANGED <<read_counts, keep_reads, pc>>]_vars

\* the right end of a pair, not flagged paired, was taken and p put into
\* bad_reads
C18_Witness ==
    /\ nread = 1
    /\ read # NoRead
    /\ IsBrokenPair(read)
    /\ ~read.is_paired
    /\ read.pos > read.next_reference_start
    /\ bad_reads = {nP}
    /\ read_counts = NoCounts
    /\ keep_reads = {}

\* the reads of a stream whose names filter_reads parses down to a total
DeclaresTotal(r) ==
    /\ ~r.is_secondary
    /\ ParsedName[r.qname].enough
    /\ ParsedName[r.qname].counts_ok

\* all reads of one original name declare the same total
ConsistentTotals(stream) ==
    \A i, k \in 1..Len(stream) :
        (/\ DeclaresTotal(stream[i])
         /\ DeclaresTotal(stream[k])
         /\ ParsedName[stream[i].qname].orig_name =
                ParsedName[stream[k].qname].orig_name)
        => ParsedName[stream[i].qname].total = ParsedName[stream[k].qname].total

\* two runs of filter_reads end alike: both raise, or both return the same sets
SameOutcome(a, b) ==
    IF a.pc = "error" \/ b.pc = "error"
    THEN a.pc = b.pc
    ELSE a.keep_reads = b.keep_reads /\ a.bad_reads = b.bad_reads

\* C19: when all reads of a name declare the same total, filter_reads on any
\* two orders of the same reads either raises on both or returns the same
\* keep_reads and the same bad_reads on both.
C19_OrderDoesNotMatter ==
    (trial.ran /\ ConsistentTotals(trial.remap_a))
    => SameOutcome(trial.result_a, trial.result_b)

\* two different orders of two correct reads of b and one misplaced read of
\* r1, each returning keep_reads = {b} and bad_reads = {r1}
C19_Witness ==
    /\ trial.ran
    /\ trial.remap_a # trial.remap_b
    /\ Len(trial.remap_a) = 3
    /\ ConsistentTotals(trial.remap_a)
    /\ trial.result_a.pc = "write_reads"
    /\ trial.result_a.keep_reads = {nB}
    /\ trial.result_a.bad_reads = {nR1}
    /\ trial.result_b.keep_reads = {nB}
    /\ trial.result_b.bad_reads = {nR1}

====
